---- MODULE Spec2Model ----
(***************************************************************************)
(* Audit-and-security-monitoring core of firebird-mcp.                     *)
(*                                                                         *)
(*   NotificationService  package/src/notification-service.js              *)
(*   SecurityAudit        security-audit.js (src/unnamed/part_004)         *)
(*                                                                         *)
(* The specifications share the variables:                                 *)
(*   SpecBus        the notification bus: subscribe / unsubscribe /        *)
(*                  sendNotification with its asynchronous dispatch loop;  *)
(*   SpecLive       two publishers and a handler that never settles,       *)
(*                  under fairness of the other handlers;                  *)
(*   SpecDispatch   handlers that unsubscribe while they are invoked;      *)
(*   SpecRegistry   the notification registry: send, markAsRead, delete,   *)
(*                  export and import;                                     *)
(*   SpecSend       publishes on a registry that holds notifications,      *)
(*                  with failing log writes and throwing handlers;         *)
(*   SpecAudit      the audit log and the rule engine, one call at a time; *)
(*   SpecConcurrent logOperation calls in flight, interleaved at their     *)
(*                  awaits with each other and with cleanOldAuditLogs;     *)
(*   SpecScan       the batch scan over logs holding a day of activity;    *)
(*   SpecConfig     construction from a configuration source.              *)
(***************************************************************************)
EXTENDS Integers, Sequences, FiniteSets, TLC

VARIABLES
    subscribers,    \* NotificationService.subscribers: Map eventType -> callbacks[]
    notifications,  \* NotificationService.notifications: array of notifications
    pubs,           \* in-flight sendNotification calls, one per publisher
    sent,           \* number of sendNotification calls started
    subOps,         \* number of subscribe / unsubscribe calls made
    reply,          \* the last registry call (markAsRead, delete, import) and its return value
    draws,          \* the ids generateNotificationId returned so far, and whether one came twice
    imports,        \* number of importNotifications calls made
    log,            \* lines of ./logs/audit.log, in file order
    now,            \* Date.now(), in minutes
    writable,       \* whether fs.appendFileSync on the audit log succeeds
    securityConfig, \* SecurityAudit.securityConfig
    last,           \* the last audit API call and what its caller observed
    calls,          \* number of audit API calls made
    ticks,          \* number of clock advances
    recs            \* in-flight logOperation calls of concurrent callers

busVars   == <<subscribers, notifications, pubs, sent, subOps,
               reply, draws, imports>>
auditVars == <<log, now, writable, securityConfig, last, calls, ticks, recs>>
vars      == <<subscribers, notifications, pubs, sent, subOps,
               reply, draws, imports,
               log, now, writable, securityConfig, last, calls, ticks, recs>>

(***************************************************************************)
(* Generic helpers on sequences.                                           *)
(***************************************************************************)
Range(s) == {s[i] : i \in 1..Len(s)}

IsPrefix(s, t) == Len(s) <= Len(t) /\ SubSeq(t, 1, Len(s)) = s

\* Array.prototype.indexOf: first (1-based) index of x in s, 0 when absent.
IndexOf(s, x) ==
    IF x \in Range(s) THEN CHOOSE i \in 1..Len(s) : s[i] = x /\ \A j \in 1..(i-1) : s[j] # x
    ELSE 0

\* Array.prototype.splice(index, 1)
RemoveAt(s, i) == SubSeq(s, 1, i-1) \o SubSeq(s, i+1, Len(s))

Count(s, x) == Cardinality({i \in 1..Len(s) : s[i] = x})

(***************************************************************************)
(* NotificationService                                                     *)
(***************************************************************************)
Wildcard   == "*"
EventTypes == {"SECURITY_ALERT", "DATABASE_ALERT", Wildcard}
Handlers   == {"h1", "h2"}
Publishers == {"p1", "p2"}
Messages   == {"msg", ""}

MaxRegs  == 3   \* registrations held by the bus at one time
MaxSends == 2   \* sendNotification calls in one behaviour
MaxSubOps == 3  \* subscribe / unsubscribe calls in one behaviour

NoPub == [pc |-> "idle", type |-> "", phase |-> "typed", idx |-> 0,
          invoked |-> <<>>, threw |-> {}, mutated |-> FALSE, result |-> "none",
          id |-> <<-1, 0>>, logged |-> FALSE]

TotalRegs(subs) ==
    LET RECURSIVE Sum(_)
        Sum(S) == IF S = {} THEN 0
                  ELSE LET t == CHOOSE x \in S : TRUE IN Len(subs[t]) + Sum(S \ {t})
    IN Sum(DOMAIN subs)

\* this.subscribers.has(eventType)
Has(subs, t) == t \in DOMAIN subs

\* A variant of subscribe that puts the callback at the head of the list.
SubscribeFront(subs, t, r) ==
    IF Has(subs, t)
    THEN [subs EXCEPT ![t] = <<r>> \o @]
    ELSE [x \in DOMAIN subs \cup {t} |-> IF x = t THEN <<r>> ELSE subs[x]]

\* subscribe(eventType, callback): create the list on first use, then push.
SubscribeMap(subs, t, r) ==
    IF Has(subs, t)
    THEN [subs EXCEPT ![t] = Append(@, r)]
    ELSE [x \in DOMAIN subs \cup {t} |-> IF x = t THEN <<r>> ELSE subs[x]]

\* The callbacks of a list.  A list element is a registration [h, n]: the
\* callback h, and the serial number n of the subscribe call that pushed it
\* (bookkeeping: the code stores the callback alone).
Callbacks(regs) == [i \in 1..Len(regs) |-> regs[i].h]

\* A variant of unsubscribe that removes every occurrence of the callback.
UnsubscribeAll(subs, t, h) ==
    IF Has(subs, t)
    THEN [subs EXCEPT ![t] = SelectSeq(@, LAMBDA r : r.h # h)]
    ELSE subs

\* unsubscribe(eventType, callback): splice the first occurrence, if any.
UnsubscribeMap(subs, t, h) ==
    IF Has(subs, t) /\ IndexOf(Callbacks(subs[t]), h) > 0
    THEN [subs EXCEPT ![t] = RemoveAt(@, IndexOf(Callbacks(subs[t]), h))]
    ELSE subs

\* Bookkeeping: the subscriptions are no longer those a publish started with.
MarkMutated(ps) ==
    [p \in DOMAIN ps |->
        IF ps[p].pc \in {"awaiting", "returned"} THEN [ps[p] EXCEPT !.mutated = TRUE] ELSE ps[p]]

Subscribe(t, h) ==
    /\ TotalRegs(subscribers) < MaxRegs
    /\ subOps < MaxSubOps
    /\ subOps' = subOps + 1
    /\ subscribers' = SubscribeMap(subscribers, t, [h |-> h, n |-> subOps + 1])
    /\ pubs' = MarkMutated(pubs)
    /\ UNCHANGED <<notifications, sent, reply, draws, imports>>
    /\ UNCHANGED auditVars

Unsubscribe(t, h) ==
    /\ subOps < MaxSubOps
    /\ subOps' = subOps + 1
    /\ subscribers' = UnsubscribeMap(subscribers, t, h)
    /\ pubs' = IF subscribers' # subscribers THEN MarkMutated(pubs) ELSE pubs
    /\ UNCHANGED <<notifications, sent, reply, draws, imports>>
    /\ UNCHANGED auditVars

\* A variant of the dispatch that ends after the list of the type and leaves
\* the wildcard list out.
NextCallTypedOnly(subs, type, phase, idx) ==
    IF phase = "typed" /\ Has(subs, type) /\ idx <= Len(subs[type])
    THEN [kind |-> "call", phase |-> "typed", idx |-> idx, handler |-> subs[type][idx]]
    ELSE [kind |-> "done", phase |-> "wild", idx |-> idx, handler |-> [h |-> "", n |-> 0]]

\* notifySubscribers, one turn of its two for-of loops.  The array iterator
\* reads the live array at position idx; when the typed loop is exhausted (or
\* the type has no list) the wildcard loop starts; when that is exhausted the
\* function returns.  Result: the next callback to call, or "done".
RECURSIVE NextCall(_, _, _, _)
NextCall(subs, type, phase, idx) ==
    IF phase = "typed"
    THEN IF Has(subs, type) /\ idx <= Len(subs[type])
         THEN [kind |-> "call", phase |-> "typed", idx |-> idx, handler |-> subs[type][idx]]
         ELSE NextCall(subs, type, "wild", 1)
    ELSE IF Has(subs, Wildcard) /\ idx <= Len(subs[Wildcard])
         THEN [kind |-> "call", phase |-> "wild", idx |-> idx, handler |-> subs[Wildcard][idx]]
         ELSE [kind |-> "done", phase |-> "wild", idx |-> idx, handler |-> [h |-> "", n |-> 0]]

\* The publisher record after the loop advanced from (phase, idx).
Advance(pr, subs, phase, idx) ==
    LET c == NextCall(subs, pr.type, phase, idx) IN
    IF c.kind = "call"
    THEN [pr EXCEPT !.pc = "awaiting", !.phase = c.phase, !.idx = c.idx,
                    !.invoked = Append(@, c.handler)]
    ELSE [pr EXCEPT !.pc = "returned", !.phase = c.phase, !.idx = c.idx,
                    !.result = "notification"]

\* generateNotificationId: `notif_${Date.now()}_${random}`
RandIds == {1, 2}
generateNotificationId(t, r) == <<t, r>>

\* Bookkeeping of the ids generated: the set of them, and whether some id was
\* generated twice.
Drawn(d, new) ==
    [ids |-> d.ids \cup {new[i] : i \in 1..Len(new)},
     repeated |-> \/ d.repeated
                  \/ \E i \in 1..Len(new) : new[i] \in d.ids
                  \/ \E i, j \in 1..Len(new) : i # j /\ new[i] = new[j]]

\* A variant of the push that leaves the new notification alone in the
\* registry.
PushReplacing(notifs, notification) == <<notification>>

\* this.notifications.push(notification)
Push(notifs, notification) == Append(notifs, notification)

\* sendNotification up to its first suspension: build the notification, push
\* it on the registry, mirror it to the notification log (logNotification
\* catches and logs a failed append; logged tells whether the line was
\* written), then enter notifySubscribers.  The publisher record keeps the id
\* of the notification the call returns.
SendNotification(p, type, message, r, logged) ==
    /\ pubs[p].pc \in {"idle", "returned"}
    /\ sent < MaxSends
    /\ sent' = sent + 1
    /\ notifications' = Push(notifications,
            [id |-> generateNotificationId(now, r), type |-> type,
             message |-> message, timestamp |-> now, read |-> FALSE])
    /\ draws' = Drawn(draws, <<generateNotificationId(now, r)>>)
    /\ pubs' = [pubs EXCEPT ![p] =
            Advance([NoPub EXCEPT !.type = type, !.logged = logged,
                                  !.id = generateNotificationId(now, r)],
                    subscribers, "typed", 1)]
    /\ UNCHANGED <<subscribers, subOps, reply, imports>>
    /\ UNCHANGED auditVars

\* A variant in which a rejected callback ends the dispatch and the rejection
\* reaches the caller of sendNotification.
SettleRethrow(pr, subs, threw) ==
    IF threw
    THEN [pr EXCEPT !.pc = "returned", !.result = "raised",
                    !.threw = @ \cup {Len(pr.invoked)}]
    ELSE Advance(pr, subs, pr.phase, pr.idx + 1)

\* try { await callback(notification) } catch (error) { logger.error(...) }:
\* a rejection is caught and logged inside the loop; either way the loop goes
\* on with the next index.  threw records which invocations were rejected.
Settle(pr, subs, threw) ==
    Advance([pr EXCEPT !.threw = IF threw THEN @ \cup {Len(pr.invoked)} ELSE @],
            subs, pr.phase, pr.idx + 1)

\* The awaited callback settles.
HandlerSettles(p, threw) ==
    /\ pubs[p].pc = "awaiting"
    /\ pubs' = [pubs EXCEPT ![p] = Settle(pubs[p], subscribers, threw)]
    /\ UNCHANGED <<subscribers, notifications, sent, subOps,
                   reply, draws, imports>>
    /\ UNCHANGED auditVars

InitBusVars ==
    /\ subscribers = << >>
    /\ notifications = << >>
    /\ pubs = [p \in {"p1"} |-> NoPub]
    /\ sent = 0
    /\ subOps = 0
    /\ reply = [op |-> "none", returned |-> FALSE, count |-> 0]
    /\ draws = [ids |-> {}, repeated |-> FALSE]
    /\ imports = 0

InitBus ==
    /\ InitBusVars
    /\ log = << >>
    /\ now = 0
    /\ writable = TRUE
    /\ securityConfig = << >>
    /\ last = << >>
    /\ calls = 0
    /\ ticks = 0
    /\ recs = << >>

NextBus ==
    \/ \E t \in EventTypes, h \in Handlers : Subscribe(t, h)
    \/ \E t \in EventTypes, h \in Handlers : Unsubscribe(t, h)
    \/ \E p \in DOMAIN pubs, t \in EventTypes :
            SendNotification(p, t, "msg", 1, TRUE)
    \/ \E p \in DOMAIN pubs, threw \in BOOLEAN : HandlerSettles(p, threw)

SpecBus == InitBus /\ [][NextBus]_vars

(***************************************************************************)
(* Strings.  A string value of the program is kept as a TLA+ string; the    *)
(* string operations the code applies (toUpperCase, includes) work on its   *)
(* characters, given by Chars.                                              *)
(***************************************************************************)
Undefined == "undefined"

Chars(str) ==
    CASE str = ""           -> << >>
      [] str = "LOGIN"      -> <<"L","O","G","I","N">>
      [] str = "USER_LOGIN" -> <<"U","S","E","R","_","L","O","G","I","N">>
      [] str = "SELECT"     -> <<"S","E","L","E","C","T">>
      [] str = "select"     -> <<"s","e","l","e","c","t">>
      [] str = "INSERT"     -> <<"I","N","S","E","R","T">>
      [] str = "UPDATE"     -> <<"U","P","D","A","T","E">>
      [] str = "DELETE"     -> <<"D","E","L","E","T","E">>
      [] str = "DROP"       -> <<"D","R","O","P">>
      [] str = "drop"       -> <<"d","r","o","p">>
      [] str = "ALTER"      -> <<"A","L","T","E","R">>
      [] str = "CREATE"     -> <<"C","R","E","A","T","E">>
      [] str = "GRANT"      -> <<"G","R","A","N","T">>
      [] str = "REVOKE"     -> <<"R","E","V","O","K","E">>
      [] str = "EXECUTE"    -> <<"E","X","E","C","U","T","E">>
      [] str = "USERS"      -> <<"U","S","E","R","S">>
      [] str = "users"      -> <<"u","s","e","r","s">>
      [] str = "PASSWORDS"  -> <<"P","A","S","S","W","O","R","D","S">>
      [] str = "CREDENTIALS" -> <<"C","R","E","D","E","N","T","I","A","L","S">>
      [] str = "TOKENS"     -> <<"T","O","K","E","N","S">>
      [] str = "ORDERS"     -> <<"O","R","D","E","R","S">>
      [] str = "id = 1"     -> <<"i","d"," ","=", " ","1">>
      [] str = "id = 1; drop t" -> <<"i","d"," ","="," ","1",";"," ","d","r","o","p"," ","t">>
      [] str = "dropped = 1" -> <<"d","r","o","p","p","e","d"," ","="," ","1">>

\* String.prototype.toUpperCase, one character.
UpperChar(c) ==
    CASE c = "a" -> "A" [] c = "d" -> "D" [] c = "e" -> "E" [] c = "i" -> "I"
      [] c = "l" -> "L" [] c = "o" -> "O" [] c = "p" -> "P" [] c = "r" -> "R"
      [] c = "s" -> "S" [] c = "t" -> "T" [] c = "u" -> "U" [] c = "x" -> "X"
      [] c = "c" -> "C"
      [] OTHER -> c

\* String.prototype.toUpperCase, as characters.
ToUpperCase(str) == [i \in 1..Len(Chars(str)) |-> UpperChar(Chars(str)[i])]

\* String.prototype.includes on characters: sub occurs in cs at some offset.
IncludesChars(cs, sub) ==
    \E k \in 0..(Len(cs) - Len(sub)) : SubSeq(cs, k + 1, k + Len(sub)) = sub

\* Array.prototype.includes
ArrayIncludes(arr, x) == \E i \in 1..Len(arr) : arr[i] = x

(***************************************************************************)
(* NotificationService: two publishers, and a handler that never settles.  *)
(* Each sendNotification call awaits the promise of the callback it        *)
(* invoked and nothing else; a callback of SlowHandlers returns a promise  *)
(* that never settles, every other callback's promise settles eventually   *)
(* and the event loop then resumes the call that awaits it.                *)
(***************************************************************************)
SlowHandlers == {"hs"}

\* The callback a publish is waiting for.
Awaited(pr) == pr.invoked[Len(pr.invoked)].h

HandlerSettlesEventually(p, threw) ==
    /\ pubs[p].pc = "awaiting"
    /\ Awaited(pubs[p]) \notin SlowHandlers
    /\ HandlerSettles(p, threw)

\* The registrations at the start: without a slow handler, and with one
\* registered for the database alerts only.
LiveRegistries ==
    {[t \in EventTypes |->
        CASE t = "SECURITY_ALERT" -> <<[h |-> "h1", n |-> 1], [h |-> "h2", n |-> 2]>>
          [] t = "DATABASE_ALERT" -> <<[h |-> d, n |-> 3], [h |-> "h1", n |-> 4]>>
          [] OTHER                -> <<[h |-> "h2", n |-> 5]>>] :
     d \in {"h2"} \cup SlowHandlers}

InitLive ==
    /\ subscribers \in LiveRegistries
    /\ notifications = << >>
    /\ pubs = [p \in Publishers |-> NoPub]
    /\ sent = 0
    /\ subOps = 5
    /\ reply = [op |-> "none", returned |-> FALSE, count |-> 0]
    /\ draws = [ids |-> {}, repeated |-> FALSE]
    /\ imports = 0
    /\ log = << >>
    /\ now = 0
    /\ writable = TRUE
    /\ securityConfig = << >>
    /\ last = << >>
    /\ calls = 0
    /\ ticks = 0
    /\ recs = << >>

NextLive ==
    \/ \E p \in Publishers, t \in EventTypes \ {Wildcard} :
            SendNotification(p, t, "msg", 1, TRUE)
    \/ \E p \in Publishers, threw \in BOOLEAN : HandlerSettlesEventually(p, threw)

SpecLive ==
    /\ InitLive
    /\ [][NextLive]_vars
    /\ \A p \in Publishers :
            WF_vars(\E threw \in BOOLEAN : HandlerSettlesEventually(p, threw))

(***************************************************************************)
(* NotificationService: handlers that unsubscribe while they are invoked.  *)
(***************************************************************************)
\* The handler a publish is waiting for calls unsubscribe for the list the
\* loop is in, removing itself or a callback that comes before it.
UnsubscribeDuringDispatch(p, h) ==
    LET t == IF pubs[p].phase = "typed" THEN pubs[p].type ELSE Wildcard IN
    /\ pubs[p].pc = "awaiting"
    /\ Has(subscribers, t)
    /\ IndexOf(Callbacks(subscribers[t]), h) \in 1..pubs[p].idx
    /\ Unsubscribe(t, h)

\* The registrations made before the first publish.
DispatchRegistries ==
    {[t \in {"SECURITY_ALERT", Wildcard} |->
        IF t = Wildcard THEN [i \in 1..Len(w) |-> [h |-> w[i], n |-> 3 + i]]
        ELSE [i \in 1..Len(s) |-> [h |-> s[i], n |-> i]]] :
     s \in {<<"h1", "h2">>, <<"h2", "h1", "h2">>}, w \in {<< >>, <<"h1">>, <<"h1", "h2">>}}

InitDispatch ==
    /\ subscribers \in DispatchRegistries
    /\ notifications = << >>
    /\ pubs = [p \in {"p1"} |-> NoPub]
    /\ sent = 0
    /\ subOps = 0
    /\ reply = [op |-> "none", returned |-> FALSE, count |-> 0]
    /\ draws = [ids |-> {}, repeated |-> FALSE]
    /\ imports = 0
    /\ log = << >>
    /\ now = 0
    /\ writable = TRUE
    /\ securityConfig = << >>
    /\ last = << >>
    /\ calls = 0
    /\ ticks = 0
    /\ recs = << >>

NextDispatch ==
    \/ \E p \in DOMAIN pubs : SendNotification(p, "SECURITY_ALERT", "msg", 1, TRUE)
    \/ \E p \in DOMAIN pubs, h \in Handlers : UnsubscribeDuringDispatch(p, h)
    \/ \E p \in DOMAIN pubs, threw \in BOOLEAN : HandlerSettles(p, threw)

SpecDispatch == InitDispatch /\ [][NextDispatch]_vars

(***************************************************************************)
(* SecurityAudit: configuration, log lines, clock.                         *)
(***************************************************************************)
MinutesPerDay == 1440

\* loadSecurityConfig, no ./config/security-config.json present: the defaults.
DefaultSecurityConfig ==
    [sensitiveTables      |-> <<"USERS", "PASSWORDS", "CREDENTIALS", "TOKENS">>,
     maxFailedAttempts    |-> 5,
     auditRetentionDays   |-> 90,
     allowedOperations    |-> <<"SELECT", "INSERT", "UPDATE", "DELETE">>,
     restrictedOperations |-> <<"DROP", "ALTER", "CREATE", "GRANT", "REVOKE">>]

\* The members of a security configuration.
ConfigFields == DOMAIN DefaultSecurityConfig

\* What the constructor finds at ./config/security-config.json:
\*   "absent"      no file (fs.existsSync is false),
\*   "unreadable"  a file that fs.readFileSync cannot read,
\*   "unparsable"  a file that JSON.parse rejects,
\*   "parsed"      a file holding a JSON object; value is that object, a
\*                 record of the members the file gives.
ConfigSource(kind, value) == [kind |-> kind, value |-> value]

\* loadSecurityConfig: the parsed object as it is, the defaults when there is
\* no file or when reading or parsing throws.
loadSecurityConfig(source) ==
    IF source.kind = "parsed" THEN source.value ELSE DefaultSecurityConfig

\* A line of the audit log.  kind tells what JSON.parse makes of it:
\*   "entry"  an audit entry written by logOperation,
\*   "event"  a security entry written by logSecurityEvent (it has no
\*            operation, resource or success field),
\*   "blank"  an empty line (JSON.parse throws).
\* Fields a line does not have hold Undefined (FALSE for success).
AuditEntry(timestamp, user, operation, resource, success) ==
    [kind |-> "entry", timestamp |-> timestamp, user |-> user,
     operation |-> operation, resource |-> resource, success |-> success,
     event |-> Undefined, severity |-> Undefined]

SecurityEntry(timestamp, event, user, severity) ==
    [kind |-> "event", timestamp |-> timestamp, user |-> user,
     operation |-> Undefined, resource |-> Undefined, success |-> FALSE,
     event |-> event, severity |-> severity]

BlankLine ==
    [kind |-> "blank", timestamp |-> 0, user |-> Undefined,
     operation |-> Undefined, resource |-> Undefined, success |-> FALSE,
     event |-> Undefined, severity |-> Undefined]

\* A line cut short by a write that failed part-way (JSON.parse throws).
TornLine ==
    [kind |-> "torn", timestamp |-> 0, user |-> Undefined,
     operation |-> Undefined, resource |-> Undefined, success |-> FALSE,
     event |-> Undefined, severity |-> Undefined]

\* JSON.parse(line) succeeds.
Parses(line) == line.kind \in {"entry", "event"}

\* new Date(timestamp).getHours(), timestamps counted in minutes.
GetHours(timestamp) == (timestamp \div 60) % 24

\* A variant of the append that replaces the file's content.
AppendTruncating(file, line) == <<line>>

\* fs.appendFileSync(path, line + '\n')
AppendFileSync(file, line) == Append(file, line)

\* logData.trim().split('\n'): leading and trailing empty lines go; an empty
\* text still splits into one empty line.
RECURSIVE TrimLeft(_)
TrimLeft(lines) ==
    IF lines # << >> /\ Head(lines).kind = "blank" THEN TrimLeft(Tail(lines)) ELSE lines

RECURSIVE TrimRight(_)
TrimRight(lines) ==
    IF lines # << >> /\ lines[Len(lines)].kind = "blank"
    THEN TrimRight(SubSeq(lines, 1, Len(lines) - 1)) ELSE lines

ReadLines(file) ==
    LET t == TrimRight(TrimLeft(file)) IN IF t = << >> THEN <<BlankLine>> ELSE t

(***************************************************************************)
(* SecurityAudit: the rule engine.                                         *)
(***************************************************************************)
FailedAttemptMinutes == 5    \* getRecentFailedAttempts(auditEntry.user, 5)
RecentOperationMinutes == 10 \* getRecentOperations(auditEntry.user, 10)
HighFrequencyLimit == 50     \* recentOperations.length > 50
UsualFromHour == 6           \* hour < 6
UsualToHour == 22            \* hour > 22

\* entry.operation.includes('LOGIN') on a parsed line that has an operation.
IsLoginOperation(operation) == IncludesChars(Chars(operation), Chars("LOGIN"))

\* A variant of the counting test that ignores the cutoff.
IsFailedAttemptAnyTime(entry, user, cutoffTime) ==
    /\ Parses(entry)
    /\ entry.user = user
    /\ entry.kind = "entry"
    /\ IsLoginOperation(entry.operation)
    /\ ~entry.success

\* getRecentFailedAttempts: the test of its loop, on one line.  On a line whose
\* user matches but which has no operation, entry.operation.includes throws;
\* the inner catch drops the line like a malformed one.
IsRecentFailedAttempt(entry, user, cutoffTime) ==
    /\ Parses(entry)
    /\ entry.user = user
    /\ entry.kind = "entry"
    /\ IsLoginOperation(entry.operation)
    /\ ~entry.success
    /\ entry.timestamp > cutoffTime

getRecentFailedAttempts(file, user, minutes, t) ==
    Len(SelectSeq(ReadLines(file),
                  LAMBDA entry : IsRecentFailedAttempt(entry, user, t - minutes)))

\* getRecentOperations: every parsed line of the user after the cutoff.
getRecentOperations(file, user, minutes, t) ==
    SelectSeq(ReadLines(file),
              LAMBDA entry : /\ Parses(entry)
                             /\ entry.user = user
                             /\ entry.timestamp > t - minutes)

\* A variant of the keyword scan that does not upper-case the clause.
FirstDangerousKeywordAsWritten(whereClause, config) ==
    LET hits == {i \in 1..Len(config.restrictedOperations) :
                    IncludesChars(Chars(whereClause),
                                  Chars(config.restrictedOperations[i]))}
    IN  IF hits = {} THEN 0 ELSE CHOOSE i \in hits : \A j \in hits : i <= j

\* A variant of the threshold test that needs more than maxFailedAttempts.
TooManyFailedStrict(failedAttempts, config) ==
    failedAttempts > config.maxFailedAttempts

\* failedAttempts >= this.securityConfig.maxFailedAttempts
TooManyFailed(failedAttempts, config) ==
    failedAttempts >= config.maxFailedAttempts

\* sensitiveTables.some(table => resource && resource.toUpperCase().includes(table))
TouchesSensitiveTable(resource, config) ==
    \E i \in 1..Len(config.sensitiveTables) :
        /\ resource # Undefined
        /\ resource # ""
        /\ IncludesChars(ToUpperCase(resource), Chars(config.sensitiveTables[i]))

\* hour < 6 || hour > 22
IsUnusualHour(hour) == hour < UsualFromHour \/ hour > UsualToHour

Activity(type, severity) == [type |-> type, severity |-> severity]

\* checkSuspiciousActivity up to its call of getRecentOperations: the
\* activities pushed from the entry and the number getRecentFailedAttempts
\* returned (asked only for a failed login).
ActivitiesBeforeRecentOperations(auditEntry, config, failedAttempts) ==
    LET failed ==
            IF ~auditEntry.success /\ IsLoginOperation(auditEntry.operation)
            THEN IF TooManyFailed(failedAttempts, config)
                 THEN <<Activity("MULTIPLE_FAILED_LOGINS", "HIGH")>> ELSE << >>
            ELSE << >>
        sensitive ==
            IF TouchesSensitiveTable(auditEntry.resource, config)
            THEN <<Activity("SENSITIVE_TABLE_ACCESS", "MEDIUM")>> ELSE << >>
        unusual ==
            IF IsUnusualHour(GetHours(auditEntry.timestamp))
            THEN <<Activity("UNUSUAL_TIME_ACCESS", "LOW")>> ELSE << >>
    IN  failed \o sensitive \o unusual

\* ... and after it: recentOperations.length > 50.
FrequentActivity(recentOperations) ==
    IF recentOperations > HighFrequencyLimit
    THEN <<Activity("HIGH_FREQUENCY_OPERATIONS", "MEDIUM")>> ELSE << >>

\* checkSuspiciousActivity run without interruption: the list
\* suspiciousActivities it builds from the entry just appended and the log as
\* it then is.
SuspiciousActivities(file, auditEntry, config, t) ==
    ActivitiesBeforeRecentOperations(auditEntry, config,
        getRecentFailedAttempts(file, auditEntry.user, FailedAttemptMinutes, t))
    \o FrequentActivity(
        Len(getRecentOperations(file, auditEntry.user, RecentOperationMinutes, t)))

\* logSecurityEvent: the file after the call.  A failed write is caught and
\* logged; nothing reaches the caller.
logSecurityEvent(file, canWrite, event, user, severity, t) ==
    IF canWrite THEN AppendFileSync(file, SecurityEntry(t, event, user, severity))
    ELSE file

\* The loop of checkSuspiciousActivity that writes one security entry per
\* activity, in order.
RECURSIVE LogActivities(_, _, _, _, _)
LogActivities(file, canWrite, activities, user, t) ==
    IF activities = << >> THEN file
    ELSE LogActivities(
            logSecurityEvent(file, canWrite, Head(activities).type, user,
                             Head(activities).severity, t),
            canWrite, Tail(activities), user, t)

\* A variant of logOperation that evaluates the rules and writes their
\* security entries before it appends the audit entry.
LogOperationResultRulesFirst(file, canWrite, auditEntry, config, t) ==
    IF ~canWrite
    THEN [file |-> file, appended |-> FALSE, emitted |-> << >>]
    ELSE LET activities == SuspiciousActivities(AppendFileSync(file, auditEntry),
                                                auditEntry, config, t)
         IN  [file |-> AppendFileSync(
                          LogActivities(file, canWrite, activities, auditEntry.user, t),
                          auditEntry),
              appended |-> TRUE, emitted |-> activities]

\* logOperation as a whole: [file, appended, emitted].  The append comes first;
\* when it throws, the catch logs the error and the function returns normally
\* without evaluating any rule.
LogOperationResult(file, canWrite, auditEntry, config, t) ==
    IF ~canWrite
    THEN [file |-> file, appended |-> FALSE, emitted |-> << >>]
    ELSE LET file1  == AppendFileSync(file, auditEntry)
             activities == SuspiciousActivities(file1, auditEntry, config, t)
         IN  [file |-> LogActivities(file1, canWrite, activities, auditEntry.user, t),
              appended |-> TRUE, emitted |-> activities]

(***************************************************************************)
(* SecurityAudit: validations, report, scan, retention.                    *)
(***************************************************************************)
\* The first keyword of restrictedOperations the upper-cased clause includes,
\* 0 when there is none (the for-of loop of validateWhereClause).
FirstDangerousKeyword(whereClause, config) ==
    LET hits == {i \in 1..Len(config.restrictedOperations) :
                    IncludesChars(ToUpperCase(whereClause),
                                  Chars(config.restrictedOperations[i]))}
    IN  IF hits = {} THEN 0 ELSE CHOOSE i \in hits : \A j \in hits : i <= j

\* validateWhereClause: [raised, event]; event is the security event it logs
\* before throwing, Undefined when it logs none.
ValidateWhereClauseResult(whereClause, config) ==
    IF whereClause = "" \/ whereClause = Undefined
    THEN [raised |-> TRUE, event |-> Undefined]
    ELSE IF FirstDangerousKeyword(whereClause, config) > 0
         THEN [raised |-> TRUE, event |-> "DANGEROUS_QUERY"]
         ELSE [raised |-> FALSE, event |-> Undefined]

\* validatePrivileges: the for-of loop stops at the first privilege that is
\* restricted or not allowed.
RECURSIVE CheckPrivileges(_, _)
CheckPrivileges(privileges, config) ==
    IF privileges = << >> THEN [raised |-> FALSE, event |-> Undefined]
    ELSE LET upperPrivilege == ToUpperCase(Head(privileges)) IN
         IF \E i \in 1..Len(config.restrictedOperations) :
                Chars(config.restrictedOperations[i]) = upperPrivilege
         THEN [raised |-> TRUE, event |-> "RESTRICTED_PRIVILEGE"]
         ELSE IF ~\E i \in 1..Len(config.allowedOperations) :
                    Chars(config.allowedOperations[i]) = upperPrivilege
              THEN [raised |-> TRUE, event |-> "UNKNOWN_PRIVILEGE"]
              ELSE CheckPrivileges(Tail(privileges), config)

ValidatePrivilegesResult(privileges, config) ==
    IF privileges = << >>
    THEN [raised |-> TRUE, event |-> Undefined]
    ELSE CheckPrivileges(privileges, config)

\* generateAuditReport: the filter loop.  options.user and options.operation
\* are Undefined when not given; options.success is "any" when not given.
PassesReportFilter(entry, startDate, endDate, options) ==
    /\ Parses(entry)
    /\ ~(entry.timestamp < startDate \/ entry.timestamp > endDate)
    /\ (options.user # Undefined => entry.user = options.user)
    /\ (options.operation # Undefined => entry.operation = options.operation)
    /\ (options.success # "any" =>
            /\ entry.kind = "entry"
            /\ entry.success = (options.success = "true"))

\* ((a / b) * 100).toFixed(2), in hundredths of a percent (rounded to nearest).
ToFixed2(a, b) == (2 * 10000 * a + b) \div (2 * b)

\* A variant of formatAuditReport without the early return on no entry: the
\* rate is computed from 0 / 0.
FormatAuditReportAlwaysRate(entries) ==
    LET successCount == Len(SelectSeq(entries, LAMBDA e : e.kind = "entry" /\ e.success)) IN
    [total |-> Len(entries), empty |-> FALSE, success |-> successCount,
     failed |-> Len(entries) - successCount,
     rate |-> IF Len(entries) = 0 THEN <<"NaN">> ELSE <<ToFixed2(successCount, Len(entries))>>,
     entries |-> entries]

\* formatAuditReport: the numbers it prints.  With no entry it returns the
\* empty-period text before any rate is computed.
\* rate is << >> when no rate is computed, else the one-element sequence of
\* ((successCount / entries.length) * 100).toFixed(2) in hundredths of a
\* percent; entries are the filtered entries, in file order.
FormatAuditReport(entries) ==
    LET successCount == Len(SelectSeq(entries, LAMBDA e : e.kind = "entry" /\ e.success)) IN
    IF Len(entries) = 0
    THEN [total |-> 0, empty |-> TRUE, success |-> 0, failed |-> 0,
          rate |-> << >>, entries |-> entries]
    ELSE [total |-> Len(entries), empty |-> FALSE, success |-> successCount,
          failed |-> Len(entries) - successCount,
          rate |-> <<ToFixed2(successCount, Len(entries))>>, entries |-> entries]

generateAuditReport(file, options, t) ==
    FormatAuditReport(
        SelectSeq(ReadLines(file),
                  LAMBDA e : PassesReportFilter(e, t - MinutesPerDay, t, options)))

\* detectSuspiciousActivity.
ScanUserLimit == 100         \* activities.length > 100
ScanFailedLoginLimit == 10   \* failedLogins.length > 10
ScanIpLimit == 200           \* activities.length > 200

\* entry.ip of a parsed line: logOperation writes getClientIP(), a security
\* entry has none.
EntryIp(entry) == IF entry.kind = "entry" THEN "127.0.0.1" ELSE Undefined

\* Keys of userActivity / ipActivity in insertion order.
KeysInOrder(keys, seen) ==
    LET first == SelectSeq([i \in 1..Len(keys) |-> i],
                           LAMBDA i : /\ keys[i] \notin seen
                                      /\ \A j \in 1..(i - 1) : keys[j] # keys[i])
    IN  [k \in 1..Len(first) |-> keys[first[k]]]

Finding(type, subject, severity) == [type |-> type, subject |-> subject, severity |-> severity]

RECURSIVE UserFindings(_, _)
UserFindings(users, recentEntries) ==
    IF users = << >> THEN << >>
    ELSE LET user == Head(users)
             activities == SelectSeq(recentEntries, LAMBDA e : e.user = user)
             failedLogins == SelectSeq(activities,
                    LAMBDA a : ~a.success /\ IsLoginOperation(a.operation))
         IN  (IF Len(activities) > ScanUserLimit
              THEN <<Finding("HIGH_FREQUENCY_USER", user, "MEDIUM")>> ELSE << >>)
             \o (IF Len(failedLogins) > ScanFailedLoginLimit
                 THEN <<Finding("MULTIPLE_FAILED_LOGINS", user, "HIGH")>> ELSE << >>)
             \o UserFindings(Tail(users), recentEntries)

RECURSIVE IpFindings(_, _)
IpFindings(ips, recentEntries) ==
    IF ips = << >> THEN << >>
    ELSE LET ip == Head(ips)
             activities == SelectSeq(recentEntries, LAMBDA e : EntryIp(e) = ip)
         IN  (IF Len(activities) > ScanIpLimit
              THEN <<Finding("HIGH_FREQUENCY_IP", ip, "MEDIUM")>> ELSE << >>)
             \o IpFindings(Tail(ips), recentEntries)

\* The failedLogins filter evaluates a.operation.includes on every recent line
\* with a falsy success; a security entry has neither field, so the filter
\* throws and the outer catch returns [].
detectSuspiciousActivity(file, t) ==
    LET recentEntries ==
            SelectSeq(ReadLines(file),
                      LAMBDA e : Parses(e) /\ e.timestamp > t - MinutesPerDay)
    IN  IF \E i \in 1..Len(recentEntries) : recentEntries[i].kind = "event"
        THEN << >>
        ELSE UserFindings(KeysInOrder([i \in 1..Len(recentEntries) |-> recentEntries[i].user], {}),
                          recentEntries)
             \o IpFindings(KeysInOrder([i \in 1..Len(recentEntries) |-> EntryIp(recentEntries[i])], {}),
                           recentEntries)

\* A variant of the retention filter whose cutoff is the current time.
FilteredLinesNoRetention(file, config, t) ==
    SelectSeq(ReadLines(file), LAMBDA line : Parses(line) => line.timestamp > t)

\* cleanOldAuditLogs: the lines it keeps (malformed lines are kept).
FilteredLines(file, config, t) ==
    SelectSeq(ReadLines(file),
              LAMBDA line : Parses(line) =>
                    line.timestamp > t - config.auditRetentionDays * MinutesPerDay)

(***************************************************************************)
(* SecurityAudit: the operations.                                          *)
(***************************************************************************)
Users      == {"alice", "bob"}
Operations == {"LOGIN", "USER_LOGIN", "SELECT"}
Resources  == {"users", "ORDERS", Undefined}
\* The operationData of the logOperation calls: logins name no resource,
\* the other operations name a table or none.
OperationData ==
    {[operation |-> o, resource |-> Undefined, success |-> ok] :
        o \in {o \in Operations : IsLoginOperation(o)}, ok \in BOOLEAN}
    \cup {[operation |-> o, resource |-> r, success |-> ok] :
        o \in {o \in Operations : ~IsLoginOperation(o)}, r \in Resources, ok \in BOOLEAN}
WhereClauses  == {"", "id = 1", "id = 1; drop t", "dropped = 1"}
PrivilegeLists == {<< >>, <<"select">>, <<"SELECT", "drop">>, <<"EXECUTE", "DROP">>}
TickMinutes == {5}

MaxCalls == 1   \* audit API calls in one behaviour
MaxTicks == 1   \* clock advances in one behaviour

\* What the caller of the last audit API call saw, and what the call did.
NoCall ==
    [op |-> "none", entry |-> BlankLine, whereClause |-> Undefined,
     privileges |-> << >>, raised |-> FALSE, appended |-> FALSE,
     emitted |-> << >>, before |-> 0, removed |-> 0, at |-> 0, canWrite |-> TRUE,
     report |-> [total |-> 0, empty |-> TRUE, success |-> 0, failed |-> 0,
                 rate |-> << >>, entries |-> << >>],
     options |-> [user |-> Undefined, operation |-> Undefined, success |-> "any"],
     writeFailed |-> FALSE,
     findings |-> << >>,
     source |-> [kind |-> "absent", value |-> << >>]]

\* logOperation({user, operation, resource, result, timestamp}); the
\* timestamp defaults to the current time.
LogOperation(user, operation, resource, success, timestamp) ==
    LET auditEntry == AuditEntry(timestamp, user, operation, resource, success)
        r == LogOperationResult(log, writable, auditEntry, securityConfig, now)
    IN  /\ calls < MaxCalls
        /\ calls' = calls + 1
        /\ log' = r.file
        /\ last' = [NoCall EXCEPT !.op = "logOperation", !.entry = auditEntry,
                                  !.appended = r.appended, !.emitted = r.emitted,
                                  !.before = Len(log), !.at = now, !.canWrite = writable]
        /\ UNCHANGED <<now, writable, securityConfig, ticks>>
        /\ UNCHANGED <<busVars, recs>>

ValidateWhereClause(whereClause) ==
    LET r == ValidateWhereClauseResult(whereClause, securityConfig) IN
    /\ calls < MaxCalls
    /\ calls' = calls + 1
    /\ log' = IF r.event # Undefined
              THEN logSecurityEvent(log, writable, r.event, "unknown", Undefined, now)
              ELSE log
    /\ last' = [NoCall EXCEPT !.op = "validateWhereClause", !.whereClause = whereClause,
                              !.raised = r.raised, !.before = Len(log), !.at = now, !.canWrite = writable]
    /\ UNCHANGED <<now, writable, securityConfig, ticks>>
    /\ UNCHANGED <<busVars, recs>>

ValidatePrivileges(privileges) ==
    LET r == ValidatePrivilegesResult(privileges, securityConfig) IN
    /\ calls < MaxCalls
    /\ calls' = calls + 1
    /\ log' = IF r.event # Undefined
              THEN logSecurityEvent(log, writable, r.event, "unknown", Undefined, now)
              ELSE log
    /\ last' = [NoCall EXCEPT !.op = "validatePrivileges", !.privileges = privileges,
                              !.raised = r.raised, !.before = Len(log), !.at = now, !.canWrite = writable]
    /\ UNCHANGED <<now, writable, securityConfig, ticks>>
    /\ UNCHANGED <<busVars, recs>>

GenerateAuditReport(options) ==
    /\ calls < MaxCalls
    /\ calls' = calls + 1
    /\ last' = [NoCall EXCEPT !.op = "generateAuditReport",
                              !.report = generateAuditReport(log, options, now),
                              !.options = options,
                              !.before = Len(log), !.at = now, !.canWrite = writable]
    /\ UNCHANGED <<log, now, writable, securityConfig, ticks>>
    /\ UNCHANGED <<busVars, recs>>

DetectSuspiciousActivity ==
    /\ calls < MaxCalls
    /\ calls' = calls + 1
    /\ last' = [NoCall EXCEPT !.op = "detectSuspiciousActivity",
                              !.findings = detectSuspiciousActivity(log, now),
                              !.before = Len(log), !.at = now, !.canWrite = writable]
    /\ UNCHANGED <<log, now, writable, securityConfig, ticks>>
    /\ UNCHANGED <<busVars, recs>>

\* cleanOldAuditLogs: read, filter, fs.writeFileSync(lines.join('\n') + '\n').
\* With no line kept the file becomes one empty line.  A failed write is
\* caught and logged.
CleanOldAuditLogs ==
    LET filteredLines == FilteredLines(log, securityConfig, now) IN
    /\ calls < MaxCalls
    /\ calls' = calls + 1
    /\ log' = IF ~writable THEN log
              ELSE IF filteredLines = << >> THEN <<BlankLine>> ELSE filteredLines
    /\ last' = [NoCall EXCEPT !.op = "cleanOldAuditLogs", !.writeFailed = ~writable,
                              !.removed = IF writable
                                          THEN Len(ReadLines(log)) - Len(filteredLines)
                                          ELSE 0,
                              !.before = Len(log), !.at = now, !.canWrite = writable]
    /\ UNCHANGED <<now, writable, securityConfig, ticks>>
    /\ UNCHANGED <<busVars, recs>>

\* fs.writeFileSync fails after it opened (and so emptied) the file: the file
\* holds a part of the new content, whole lines and possibly a cut one.  The
\* write stops before the first line, after it, or before the last one.
PartialWrites(lines) ==
    {SubSeq(lines, 1, k) : k \in {0, 1, Len(lines) - 1} \cap 0..(Len(lines) - 1)}
    \cup {Append(SubSeq(lines, 1, k), TornLine) : k \in {0, 1, Len(lines) - 1} \cap 0..(Len(lines) - 1)}

\* cleanOldAuditLogs whose write fails part-way (disk full); the error is
\* caught and logged.
CleanOldAuditLogsWriteFails(partial) ==
    LET filteredLines == FilteredLines(log, securityConfig, now) IN
    /\ calls < MaxCalls
    /\ writable
    /\ partial \in PartialWrites(filteredLines)
    /\ calls' = calls + 1
    /\ log' = partial
    /\ last' = [NoCall EXCEPT !.op = "cleanOldAuditLogs", !.writeFailed = TRUE,
                              !.before = Len(log), !.at = now, !.canWrite = writable]
    /\ UNCHANGED <<now, writable, securityConfig, ticks>>
    /\ UNCHANGED <<busVars, recs>>

\* Time passes between two calls.
Tick(minutes) ==
    /\ ticks < MaxTicks
    /\ calls < MaxCalls
    /\ ticks' = ticks + 1
    /\ now' = now + minutes
    /\ UNCHANGED <<log, writable, securityConfig, last, calls>>
    /\ UNCHANGED <<busVars, recs>>

\* The audit log becomes unwritable (disk full, permission denied), or
\* writable again, before a call.
SetWritable(b) ==
    /\ writable # b
    /\ calls < MaxCalls
    /\ writable' = b
    /\ UNCHANGED <<log, now, securityConfig, last, calls, ticks>>
    /\ UNCHANGED <<busVars, recs>>

\* The audit log outlives the process: at construction it holds what earlier
\* runs wrote.  Preload(file, entries, ...) is the file after one logOperation
\* call per audit entry, in order.
RECURSIVE Preload(_, _, _, _)
Preload(file, entries, config, t) ==
    IF entries = << >> THEN file
    ELSE Preload(LogOperationResult(file, TRUE, Head(entries), config, t).file,
                 Tail(entries), config, t)

\* Construction times: 05:59, 21:59 and 22:59 of one day.
StartDays == {100}
StartHours == {5, 21, 22}
StartTimes == {d * MinutesPerDay + h * 60 + 59 : d \in StartDays, h \in StartHours}

\* The file after n logOperation calls that trigger no rule: n audit entries.
QuietLog(n, auditEntry) == [i \in 1..n |-> auditEntry]

\* The file after n logOperation calls on a sensitive table at a usual hour:
\* each audit entry is followed by its SENSITIVE_TABLE_ACCESS entry.
SensitiveLog(n, auditEntry) ==
    [i \in 1..(2 * n) |->
        IF i % 2 = 1 THEN auditEntry
        ELSE SecurityEntry(auditEntry.timestamp, "SENSITIVE_TABLE_ACCESS",
                           auditEntry.user, "MEDIUM")]

QuietPreloads == {49, 50}
SensitivePreloads == {25}

FailedLoginPreloads == {0, 3, 4, 5}

PreloadedLogs(t) ==
    {Preload(<< >>, [i \in 1..n |-> AuditEntry(t, "bob", "LOGIN", Undefined, FALSE)],
             DefaultSecurityConfig, t) : n \in FailedLoginPreloads}
    \cup (IF GetHours(t) = 21
          THEN {QuietLog(n, AuditEntry(t, "bob", "SELECT", "ORDERS", TRUE)) :
                    n \in QuietPreloads}
               \cup {SensitiveLog(n, AuditEntry(t, "bob", "SELECT", "users", TRUE)) :
                        n \in SensitivePreloads}
               \cup {Preload(<< >>,
                        <<AuditEntry(t - DefaultSecurityConfig.auditRetentionDays * MinutesPerDay,
                                     "alice", "SELECT", "ORDERS", TRUE),
                          AuditEntry(t, "bob", "SELECT", "ORDERS", TRUE)>>,
                        DefaultSecurityConfig, t)}
               \cup {Preload(<< >>,
                        <<AuditEntry(t, "bob", "SELECT", "ORDERS", TRUE),
                          AuditEntry(t - 60, "alice", "SELECT", "ORDERS", FALSE)>>,
                        DefaultSecurityConfig, t)}
               \cup {<<AuditEntry(t, "bob", "LOGIN", Undefined, FALSE),
                       AuditEntry(t, "bob", "LOGIN", Undefined, FALSE),
                       TornLine,
                       AuditEntry(t, "bob", "LOGIN", Undefined, FALSE),
                       BlankLine,
                       AuditEntry(t, "bob", "LOGIN", Undefined, FALSE)>>}
          ELSE {})

\* SecurityAudit's constructor; the bus already has a subscriber to the
\* security alerts and one to every notification.
InitAudit ==
    /\ subscribers = [x \in {"SECURITY_ALERT", Wildcard} |->
                        IF x = Wildcard THEN <<[h |-> "h2", n |-> 2]>>
                        ELSE <<[h |-> "h1", n |-> 1]>>]
    /\ notifications = << >>
    /\ pubs = [p \in {"p1"} |-> NoPub]
    /\ sent = 0
    /\ subOps = 2
    /\ reply = [op |-> "none", returned |-> FALSE, count |-> 0]
    /\ draws = [ids |-> {}, repeated |-> FALSE]
    /\ imports = 0
    /\ now \in StartTimes
    /\ log \in PreloadedLogs(now)
    /\ writable = TRUE
    /\ securityConfig = DefaultSecurityConfig
    /\ last = NoCall
    /\ calls = 0
    /\ ticks = 0
    /\ recs = << >>

NextAudit ==
    \/ \E u \in Users, d \in OperationData :
            LogOperation(u, d.operation, d.resource, d.success, now)
    \/ \E u \in Users :
            LogOperation(u, "LOGIN", Undefined, FALSE,
                         now - securityConfig.auditRetentionDays * MinutesPerDay)
    \/ \E w \in WhereClauses : ValidateWhereClause(w)
    \/ \E ps \in PrivilegeLists : ValidatePrivileges(ps)
    \/ \E u \in {Undefined, "bob"}, ok \in {"any", "false"} :
            GenerateAuditReport([user |-> u, operation |-> Undefined, success |-> ok])
    \/ DetectSuspiciousActivity
    \/ CleanOldAuditLogs
    \/ \E partial \in PartialWrites(FilteredLines(log, securityConfig, now)) :
            CleanOldAuditLogsWriteFails(partial)
    \/ \E m \in TickMinutes : Tick(m)
    \/ \E b \in BOOLEAN : SetWritable(b)

SpecAudit == InitAudit /\ [][NextAudit]_vars

(***************************************************************************)
(* NotificationService: the notification registry, export and import.      *)
(*                                                                         *)
(* A JSON text is kept as the value it denotes: an array of objects, an     *)
(* object being a function from the names of its members to their values.   *)
(***************************************************************************)
MaxImports == 1        \* importNotifications calls in one behaviour
MaxNotifications == 4  \* notifications held by the registry at one time

NoReply == [op |-> "none", returned |-> FALSE, count |-> 0]

\* JSON.stringify of one notification: a member whose value is undefined is
\* left out (type and message are whatever the caller of sendNotification
\* passed).
JSONStringifyObject(n) ==
    [f \in {"id", "timestamp", "read"}
           \cup {f \in {"type", "message"} : n[f] # Undefined} |-> n[f]]

JSONStringify(notifs) == [i \in 1..Len(notifs) |-> JSONStringifyObject(notifs[i])]

\* exportNotifications('json'): it returns the text and changes nothing.
exportNotifications(notifs) == JSONStringify(notifs)

\* notification[field] of a parsed object.
Member(obj, field) == IF field \in DOMAIN obj THEN obj[field] ELSE Undefined

\* !notification[field] for a member that is a string or absent.
Falsy(obj, field) == Member(obj, field) = Undefined \/ Member(obj, field) = ""

\* validateNotification: type, message and timestamp must be truthy (a
\* timestamp member, when present, is a non-empty date string).
validateNotification(obj) ==
    /\ ~Falsy(obj, "type")
    /\ ~Falsy(obj, "message")
    /\ "timestamp" \in DOMAIN obj

\* A variant of the import that keeps the id the object came with.
ImportedKeepingId(obj, id) ==
    [id |-> IF "id" \in DOMAIN obj THEN obj.id ELSE id,
     type |-> obj.type, message |-> obj.message, timestamp |-> obj.timestamp,
     read |-> IF "read" \in DOMAIN obj THEN obj.read ELSE FALSE]

\* notification.id = this.generateNotificationId(): the parsed object with
\* its id replaced (an absent read member reads as not read).
Imported(obj, id) ==
    [id |-> id,
     type |-> obj.type, message |-> obj.message, timestamp |-> obj.timestamp,
     read |-> IF "read" \in DOMAIN obj THEN obj.read ELSE FALSE]

\* importNotifications(data): the valid objects of the array, each with a
\* new id, pushed in order.  rs are the random parts of the ids.
ValidObjects(data) == SelectSeq(data, validateNotification)

importNotifications(notifs, data, t, rs) ==
    notifs \o [i \in 1..Len(ValidObjects(data)) |->
                    Imported(ValidObjects(data)[i], generateNotificationId(t, rs[i]))]

\* An export of another bus: a valid notification and one without message.
ForeignData ==
    <<[id |-> <<-1, 1>>, type |-> "DATABASE_ALERT", message |-> "disk", timestamp |-> -1,
       read |-> TRUE],
      [id |-> <<-1, 2>>, type |-> "DATABASE_ALERT", timestamp |-> -1, read |-> FALSE]>>

\* The ids callers pass to markAsRead / deleteNotification: those in the
\* registry and one that is not.
UnknownId == <<-2, 0>>
Ids(notifs) == {notifs[i].id : i \in 1..Len(notifs)}

\* this.notifications.findIndex(n => n.id === notificationId), 1-based, 0
\* when there is none.
FindIndex(notifs, id) ==
    IF id \in Ids(notifs)
    THEN CHOOSE i \in 1..Len(notifs) :
            notifs[i].id = id /\ \A j \in 1..(i-1) : notifs[j].id # id
    ELSE 0

\* A variant of markAsRead that marks every notification.
MarkAllRead(notifs, id) == [i \in 1..Len(notifs) |-> [notifs[i] EXCEPT !.read = TRUE]]

\* markAsRead: the registry after the call.
MarkRead(notifs, id) ==
    IF FindIndex(notifs, id) > 0
    THEN [notifs EXCEPT ![FindIndex(notifs, id)].read = TRUE]
    ELSE notifs

MarkAsRead(id) ==
    /\ notifications' = MarkRead(notifications, id)
    /\ reply' = [NoReply EXCEPT !.op = "markAsRead",
                                !.returned = FindIndex(notifications, id) > 0]
    /\ UNCHANGED <<subscribers, pubs, sent, subOps, draws, imports>>
    /\ UNCHANGED auditVars

DeleteNotification(id) ==
    /\ notifications' = IF FindIndex(notifications, id) > 0
                        THEN RemoveAt(notifications, FindIndex(notifications, id))
                        ELSE notifications
    /\ reply' = [NoReply EXCEPT !.op = "deleteNotification",
                                !.returned = FindIndex(notifications, id) > 0]
    /\ UNCHANGED <<subscribers, pubs, sent, subOps, draws, imports>>
    /\ UNCHANGED auditVars

ImportNotifications(data, rs) ==
    /\ imports < MaxImports
    /\ Len(notifications) + Len(ValidObjects(data)) <= MaxNotifications
    /\ imports' = imports + 1
    /\ notifications' = importNotifications(notifications, data, now, rs)
    /\ draws' = Drawn(draws, [i \in 1..Len(ValidObjects(data)) |->
                                    generateNotificationId(now, rs[i])])
    /\ reply' = [NoReply EXCEPT !.op = "importNotifications",
                                !.count = Len(ValidObjects(data))]
    /\ UNCHANGED <<subscribers, pubs, sent, subOps>>
    /\ UNCHANGED auditVars

NextRegistry ==
    \/ \E p \in DOMAIN pubs, m \in Messages, r \in RandIds :
            SendNotification(p, "SECURITY_ALERT", m, r, TRUE)
    \/ \E id \in Ids(notifications) \cup {UnknownId} : MarkAsRead(id)
    \/ \E id \in Ids(notifications) \cup {UnknownId} : DeleteNotification(id)
    \/ \E data \in {exportNotifications(notifications), ForeignData} :
            \E rs \in [1..Len(ValidObjects(data)) -> RandIds] : ImportNotifications(data, rs)

\* The registry is empty, or holds a notification sent a minute earlier.
EarlierNotification ==
    [id |-> generateNotificationId(0, 1), type |-> "DATABASE_ALERT",
     message |-> "msg", timestamp |-> 0, read |-> FALSE]

InitRegistry ==
    /\ subscribers = << >>
    /\ notifications \in {<< >>, <<EarlierNotification>>}
    /\ draws = Drawn([ids |-> {}, repeated |-> FALSE],
                     [i \in 1..Len(notifications) |-> notifications[i].id])
    /\ pubs = [p \in {"p1"} |-> NoPub]
    /\ sent = 0
    /\ subOps = 0
    /\ reply = NoReply
    /\ imports = 0
    /\ log = << >>
    /\ now = 1
    /\ writable = TRUE
    /\ securityConfig = << >>
    /\ last = << >>
    /\ calls = 0
    /\ ticks = 0
    /\ recs = << >>

SpecRegistry == InitRegistry /\ [][NextRegistry]_vars

(***************************************************************************)
(* NotificationService: publishes whose log line cannot be written and     *)
(* whose handlers throw, on a registry that holds notifications already.   *)
(***************************************************************************)
SendRegistries ==
    {[t \in {"SECURITY_ALERT", Wildcard} |->
        IF t = Wildcard THEN [i \in 1..Len(w) |-> [h |-> w[i], n |-> 2 + i]]
        ELSE [i \in 1..Len(s) |-> [h |-> s[i], n |-> i]]] :
     s \in {<< >>, <<"h1">>, <<"h1", "h2">>}, w \in {<< >>, <<"h2">>}}

InitSend ==
    /\ subscribers \in SendRegistries
    /\ notifications \in {<< >>, <<EarlierNotification>>,
                          <<EarlierNotification, [EarlierNotification EXCEPT !.read = TRUE]>>}
    /\ draws = Drawn([ids |-> {}, repeated |-> FALSE],
                     [i \in 1..Len(notifications) |-> notifications[i].id])
    /\ pubs = [p \in {"p1"} |-> NoPub]
    /\ sent = 0
    /\ subOps = 0
    /\ reply = NoReply
    /\ imports = 0
    /\ log = << >>
    /\ now = 1
    /\ writable = TRUE
    /\ securityConfig = << >>
    /\ last = << >>
    /\ calls = 0
    /\ ticks = 0
    /\ recs = << >>

NextSend ==
    \/ \E p \in DOMAIN pubs, t \in EventTypes, m \in Messages, r \in RandIds,
          logged \in BOOLEAN :
            SendNotification(p, t, m, r, logged)
    \/ \E p \in DOMAIN pubs, threw \in BOOLEAN : HandlerSettles(p, threw)

SpecSend == InitSend /\ [][NextSend]_vars

(***************************************************************************)
(* SecurityAudit under concurrent callers.  logOperation is an async         *)
(* function: it runs up to an await, and other calls run before it resumes.  *)
(* Its segments:                                                             *)
(*   start    append the entry (fs.appendFileSync), enter                    *)
(*            checkSuspiciousActivity, which for a failed login calls        *)
(*            getRecentFailedAttempts (a synchronous read) and awaits it,    *)
(*            and otherwise goes on to getRecentOperations and awaits it;    *)
(*   resume 1 after getRecentFailedAttempts: the rules on the entry, then    *)
(*            getRecentOperations (a synchronous read), awaited;             *)
(*   resume 2 after getRecentOperations: the frequency rule, then one        *)
(*            logSecurityEvent per activity, and the return.                 *)
(* cleanOldAuditLogs has no await between its read and its write.            *)
(***************************************************************************)
Callers == {"c1", "c2"}

NoRec == [pc |-> "idle", entry |-> BlankLine, appended |-> FALSE,
          failedAttempts |-> 0, recentOperations |-> 0,
          activities |-> << >>, emitted |-> << >>]

LogOperationStart(c, user, operation, resource, success, timestamp) ==
    LET auditEntry == AuditEntry(timestamp, user, operation, resource, success)
        file1 == AppendFileSync(log, auditEntry)
    IN  /\ recs[c].pc = "idle"
        /\ IF ~writable
           THEN /\ log' = log
                /\ recs' = [recs EXCEPT ![c] =
                        [NoRec EXCEPT !.pc = "done", !.entry = auditEntry]]
           ELSE /\ log' = file1
                /\ recs' = [recs EXCEPT ![c] =
                        IF ~success /\ IsLoginOperation(operation)
                        THEN [NoRec EXCEPT
                                !.pc = "awaitFailedAttempts", !.entry = auditEntry,
                                !.appended = TRUE,
                                !.failedAttempts =
                                    getRecentFailedAttempts(file1, user, FailedAttemptMinutes, now)]
                        ELSE [NoRec EXCEPT
                                !.pc = "awaitRecentOperations", !.entry = auditEntry,
                                !.appended = TRUE,
                                !.activities =
                                    ActivitiesBeforeRecentOperations(auditEntry, securityConfig, 0),
                                !.recentOperations =
                                    Len(getRecentOperations(file1, user, RecentOperationMinutes, now))]]
        /\ UNCHANGED <<now, writable, securityConfig, last, calls, ticks>>
        /\ UNCHANGED busVars

LogOperationAfterFailedAttempts(c) ==
    /\ recs[c].pc = "awaitFailedAttempts"
    /\ recs' = [recs EXCEPT ![c] =
            [@ EXCEPT !.pc = "awaitRecentOperations",
                      !.activities =
                          ActivitiesBeforeRecentOperations(recs[c].entry, securityConfig,
                                                           recs[c].failedAttempts),
                      !.recentOperations =
                          Len(getRecentOperations(log, recs[c].entry.user,
                                                  RecentOperationMinutes, now))]]
    /\ UNCHANGED <<log, now, writable, securityConfig, last, calls, ticks>>
    /\ UNCHANGED busVars

LogOperationAfterRecentOperations(c) ==
    LET activities == recs[c].activities \o FrequentActivity(recs[c].recentOperations) IN
    /\ recs[c].pc = "awaitRecentOperations"
    /\ log' = LogActivities(log, writable, activities, recs[c].entry.user, now)
    /\ recs' = [recs EXCEPT ![c] = [@ EXCEPT !.pc = "done", !.emitted = activities]]
    /\ UNCHANGED <<now, writable, securityConfig, last, calls, ticks>>
    /\ UNCHANGED busVars

\* The calls concurrent callers make: a failed login, an access to a
\* sensitive table; stamped now or with a time that is past the retention.
ConcurrentData ==
    {[operation |-> "LOGIN", resource |-> Undefined, success |-> FALSE],
     [operation |-> "SELECT", resource |-> "users", success |-> TRUE]}

ConcurrentLogs(t) ==
    {Preload(<< >>, [i \in 1..4 |-> AuditEntry(t, "bob", "LOGIN", Undefined, FALSE)],
             DefaultSecurityConfig, t),
     Preload(<< >>,
             <<AuditEntry(t - DefaultSecurityConfig.auditRetentionDays * MinutesPerDay,
                          "alice", "SELECT", "ORDERS", TRUE),
               AuditEntry(t, "bob", "SELECT", "ORDERS", TRUE)>>,
             DefaultSecurityConfig, t)}

InitConcurrent ==
    /\ InitBusVars
    /\ now \in {t \in StartTimes : GetHours(t) = 21}
    /\ log \in ConcurrentLogs(now)
    /\ writable = TRUE
    /\ securityConfig = DefaultSecurityConfig
    /\ last = NoCall
    /\ calls = 0
    /\ ticks = 0
    /\ recs = [c \in Callers |-> NoRec]

NextConcurrent ==
    \/ \E c \in Callers, d \in ConcurrentData,
          ts \in {now, now - securityConfig.auditRetentionDays * MinutesPerDay} :
            LogOperationStart(c, "bob", d.operation, d.resource, d.success, ts)
    \/ \E c \in Callers : LogOperationAfterFailedAttempts(c)
    \/ \E c \in Callers : LogOperationAfterRecentOperations(c)
    \/ CleanOldAuditLogs
    \/ \E m \in TickMinutes : Tick(m)

SpecConcurrent == InitConcurrent /\ [][NextConcurrent]_vars

(***************************************************************************)
(* SecurityAudit: the batch scan over logs that hold a day of activity.    *)
(***************************************************************************)
\* n calls with the same operationData, `step` minutes apart, the last at t.
Spaced(n, step, t, user, d) ==
    [i \in 1..n |->
        AuditEntry(t - step * (n - i), user, d.operation, d.resource, d.success)]

FailedLogin == [operation |-> "LOGIN", resource |-> Undefined, success |-> FALSE]
QuietSelect == [operation |-> "SELECT", resource |-> "ORDERS", success |-> TRUE]
SensitiveSelect == [operation |-> "SELECT", resource |-> "users", success |-> TRUE]

\* Failed logins six minutes apart and selects one minute apart: slow enough
\* for the inline rules, which look back 5 and 10 minutes, to stay silent, so
\* the file after such calls holds their audit entries and nothing else.
FailedLoginStep == {6}
QuietStep == {1}
ScanFailedLogins == {5, 10, 11}
ScanSelects == {100, 101, 201}

ScanLogs(t) ==
    {Spaced(n, step, t, "bob", FailedLogin) :
        n \in ScanFailedLogins, step \in FailedLoginStep}
    \cup {Spaced(n, step, t, "bob", QuietSelect) : n \in ScanSelects, step \in QuietStep}
    \cup {Preload(Spaced(n, step, t, "bob", FailedLogin),
                  Spaced(1, step, t, "alice", SensitiveSelect),
                  DefaultSecurityConfig, t) :
        n \in {m \in ScanFailedLogins : m > ScanFailedLoginLimit}, step \in FailedLoginStep}
    \cup {Preload(<< >>, Spaced(n, 0, t, "bob", FailedLogin), DefaultSecurityConfig, t) :
        n \in {m \in ScanFailedLogins : m = DefaultSecurityConfig.maxFailedAttempts}}

InitScan ==
    /\ InitBusVars
    /\ now \in {t \in StartTimes : GetHours(t) = 21}
    /\ log \in ScanLogs(now)
    /\ writable = TRUE
    /\ securityConfig = DefaultSecurityConfig
    /\ last = NoCall
    /\ calls = 0
    /\ ticks = 0
    /\ recs = << >>

NextScan ==
    \/ \E u \in Users, d \in OperationData :
            LogOperation(u, d.operation, d.resource, d.success, now)
    \/ DetectSuspiciousActivity
    \/ \E m \in TickMinutes : Tick(m)

SpecScan == InitScan /\ [][NextScan]_vars

(***************************************************************************)
(* SecurityAudit: construction from a configuration source.  The           *)
(* operations that follow are those whose code does not read the           *)
(* configuration.                                                          *)
(***************************************************************************)
\* An object without some of its members.
Without(obj, fields) == [f \in (DOMAIN obj) \ fields |-> obj[f]]

CustomMaxFailedAttempts == {3}

ParsedConfigs ==
    {[DefaultSecurityConfig EXCEPT !.maxFailedAttempts = n] : n \in CustomMaxFailedAttempts}
    \cup {Without([DefaultSecurityConfig EXCEPT !.maxFailedAttempts = n], {f}) :
            n \in CustomMaxFailedAttempts, f \in {"sensitiveTables", "auditRetentionDays"}}
    \cup {Without(DefaultSecurityConfig, {"maxFailedAttempts"}),
          Without(DefaultSecurityConfig, ConfigFields)}

ConfigSources ==
    {ConfigSource(k, << >>) : k \in {"absent", "unreadable", "unparsable"}}
    \cup {ConfigSource("parsed", c) : c \in ParsedConfigs}

\* The constructor: loadSecurityConfig, then initializeAuditLog, which keeps
\* an existing log and creates an empty one otherwise.  Both catch what
\* their file operations throw.
InitConfig ==
    /\ InitBusVars
    /\ now \in StartTimes
    /\ log \in {QuietLog(n, AuditEntry(now, "bob", "SELECT", "ORDERS", TRUE)) : n \in 0..2}
    /\ writable \in BOOLEAN
    /\ \E source \in ConfigSources :
            /\ securityConfig = loadSecurityConfig(source)
            /\ last = [NoCall EXCEPT !.op = "constructor", !.source = source]
    /\ calls = 0
    /\ ticks = 0
    /\ recs = << >>

NextConfig ==
    \/ \E u \in {Undefined, "bob"}, ok \in {"any", "false"} :
            GenerateAuditReport([user |-> u, operation |-> Undefined, success |-> ok])
    \/ DetectSuspiciousActivity
    \/ \E m \in TickMinutes : Tick(m)
    \/ \E b \in BOOLEAN : SetWritable(b)

SpecConfig == InitConfig /\ [][NextConfig]_vars

(***************************************************************************)
(* Claims about the notification bus.                                      *)
(***************************************************************************)
\* The registrations of a type, <<>> when the type has no list.
Regs(subs, t) == IF Has(subs, t) THEN subs[t] ELSE << >>

\* Earlier subscribe calls come first.
InRegistrationOrder(regs) ==
    \A i, j \in 1..Len(regs) : i < j => regs[i].n < regs[j].n

\* A publish that has returned while the subscriptions stayed as they were
\* when it began.
Settled(p) == pubs[p].pc = "returned" /\ ~pubs[p].mutated

\* C1: after any subscribe/unsubscribe calls, a publish of type T invokes
\* exactly the registrations of T in registration order followed by the
\* wildcard registrations in registration order; a handler registered only for
\* another type is never invoked, and a handler registered once for T (T not
\* the wildcard string itself, and the handler not also a wildcard handler) is
\* invoked exactly once.
C1_FanOutExact ==
    \A p \in DOMAIN pubs :
        Settled(p) =>
            LET T == pubs[p].type IN
            /\ pubs[p].invoked = Regs(subscribers, T) \o Regs(subscribers, Wildcard)
            /\ InRegistrationOrder(Regs(subscribers, T))
            /\ InRegistrationOrder(Regs(subscribers, Wildcard))
            /\ \A h \in Handlers :
                    (/\ Count(Callbacks(Regs(subscribers, T)), h) = 0
                     /\ Count(Callbacks(Regs(subscribers, Wildcard)), h) = 0)
                        => Count(Callbacks(pubs[p].invoked), h) = 0
            /\ \A h \in Handlers :
                    (/\ T # Wildcard
                     /\ Count(Callbacks(Regs(subscribers, T)), h) = 1
                     /\ Count(Callbacks(Regs(subscribers, Wildcard)), h) = 0)
                        => Count(Callbacks(pubs[p].invoked), h) = 1

\* The wildcard handlers come after the handlers of the type, and a handler
\* of another type stays out.
C1_Witness ==
    \E p \in DOMAIN pubs :
        /\ Settled(p)
        /\ pubs[p].type = "SECURITY_ALERT"
        /\ Callbacks(Regs(subscribers, "SECURITY_ALERT")) = <<"h1">>
        /\ Callbacks(Regs(subscribers, Wildcard)) = <<"h1">>
        /\ Callbacks(Regs(subscribers, "DATABASE_ALERT")) = <<"h2">>
        /\ Callbacks(pubs[p].invoked) = <<"h1", "h1">>

\* C2: a handler that throws (or whose promise rejects) stops nothing: every
\* handler registered after it for the type and every wildcard handler is
\* still invoked, and sendNotification returns the notification instead of
\* raising.
C2_HandlerFailureIsolated ==
    \A p \in DOMAIN pubs :
        /\ pubs[p].result # "raised"
        /\ (pubs[p].threw # {}) => pubs[p].pc \in {"awaiting", "returned"}
        /\ (pubs[p].pc = "returned") => pubs[p].result = "notification"
        /\ (Settled(p) /\ pubs[p].threw # {}) =>
                pubs[p].invoked =
                    Regs(subscribers, pubs[p].type) \o Regs(subscribers, Wildcard)

\* The first of two handlers of the type threw, the second and the wildcard
\* handler were invoked all the same, and the publish returned.
C2_Witness ==
    \E p \in DOMAIN pubs :
        /\ Settled(p)
        /\ 1 \in pubs[p].threw
        /\ Len(Regs(subscribers, pubs[p].type)) = 2
        /\ Len(Regs(subscribers, Wildcard)) = 1
        /\ pubs[p].type # Wildcard
        /\ Len(pubs[p].invoked) = 3
        /\ pubs[p].result = "notification"

(***************************************************************************)
(* Claims about the audit log and the rule engine.                         *)
(***************************************************************************)
\* The last call was a logOperation whose entry reached the file, so its
\* rules were evaluated.
Evaluated == last.op = "logOperation" /\ last.appended

\* How many activities of a type and severity an evaluation emitted.
Emitted(type, severity) ==
    Cardinality({i \in 1..Len(last.emitted) :
                    last.emitted[i] = Activity(type, severity)})

EmittedOfType(type) ==
    Cardinality({i \in 1..Len(last.emitted) : last.emitted[i].type = type})

\* a is b with some elements left out.
RECURSIVE IsSubsequence(_, _)
IsSubsequence(a, b) ==
    IF a = << >> THEN TRUE
    ELSE IF b = << >> THEN FALSE
    ELSE IF Head(a) = Head(b) THEN IsSubsequence(Tail(a), Tail(b))
    ELSE IsSubsequence(a, Tail(b))

\* C3: every security event that evaluating a recorded entry emits is
\* published on the notification bus, so the subscribers to the security
\* alerts and to the wildcard are invoked once per triggered rule.
C3_EventsPublished ==
    (Evaluated /\ last.emitted # << >>) =>
        /\ sent >= Len(last.emitted)
        /\ \E p \in DOMAIN pubs : pubs[p].invoked # << >>

LoginClass == {"LOGIN", "USER_LOGIN"}

FailedLoginsInWindow(user) ==
    Cardinality({i \in 1..Len(log) :
                    /\ log[i].kind = "entry"
                    /\ log[i].user = user
                    /\ log[i].operation \in LoginClass
                    /\ ~log[i].success
                    /\ log[i].timestamp > last.at - FailedAttemptMinutes})

\* C5: evaluating a failed login-class entry of user u emits exactly one
\* MULTIPLE_FAILED_LOGINS event at HIGH severity when u's failed login-class
\* entries inside the window number at least maxFailedAttempts, and none
\* otherwise (none either for an entry that is not a failed login).
C5_RepeatedFailureRule ==
    Evaluated =>
        /\ EmittedOfType("MULTIPLE_FAILED_LOGINS") = Emitted("MULTIPLE_FAILED_LOGINS", "HIGH")
        /\ Emitted("MULTIPLE_FAILED_LOGINS", "HIGH") =
                IF /\ ~last.entry.success
                   /\ last.entry.operation \in LoginClass
                   /\ FailedLoginsInWindow(last.entry.user) >= securityConfig.maxFailedAttempts
                THEN 1 ELSE 0

\* With maxFailedAttempts = 5, the sixth failed LOGIN of bob inside the window
\* emitted exactly one event.
C5_Witness ==
    /\ Evaluated
    /\ securityConfig.maxFailedAttempts = 5
    /\ last.entry.user = "bob"
    /\ last.entry.operation = "LOGIN"
    /\ FailedLoginsInWindow("bob") = 6
    /\ Emitted("MULTIPLE_FAILED_LOGINS", "HIGH") = 1

\* The resource is, whatever its case, a name of the sensitive list.
MatchesSensitiveName(resource) ==
    /\ resource # Undefined
    /\ \E i \in 1..Len(securityConfig.sensitiveTables) :
            ToUpperCase(resource) = ToUpperCase(securityConfig.sensitiveTables[i])

\* C6: recording an entry whose resource case-insensitively matches a
\* sensitive name emits exactly one sensitive-access event at HIGH severity,
\* whatever the entry's success; an entry whose resource matches none emits
\* no such event.
C6_SensitiveRuleHigh ==
    Evaluated =>
        /\ EmittedOfType("SENSITIVE_TABLE_ACCESS") =
                IF MatchesSensitiveName(last.entry.resource) THEN 1 ELSE 0
        /\ Emitted("SENSITIVE_TABLE_ACCESS", "HIGH") = EmittedOfType("SENSITIVE_TABLE_ACCESS")

\* C7: evaluating an entry emits UNUSUAL_TIME_ACCESS at LOW severity exactly
\* when the entry's hour of day h is outside [6,22): h < 6 or h >= 22.
C7_UnusualTimeRule ==
    Evaluated =>
        LET h == GetHours(last.entry.timestamp) IN
        /\ EmittedOfType("UNUSUAL_TIME_ACCESS") = Emitted("UNUSUAL_TIME_ACCESS", "LOW")
        /\ Emitted("UNUSUAL_TIME_ACCESS", "LOW") = IF h < 6 \/ h >= 22 THEN 1 ELSE 0

\* The audit entries of a user inside the 10-minute window of the last call.
AuditEntriesInWindow(user) ==
    Cardinality({i \in 1..Len(log) :
                    /\ log[i].kind = "entry"
                    /\ log[i].user = user
                    /\ log[i].timestamp > last.at - RecentOperationMinutes})

\* C8: evaluating an entry of user u emits HIGH_FREQUENCY_OPERATIONS at MEDIUM
\* severity exactly when u's entries inside the rolling 10-minute window
\* number more than 50.
C8_HighFrequencyRule ==
    Evaluated =>
        /\ EmittedOfType("HIGH_FREQUENCY_OPERATIONS") = Emitted("HIGH_FREQUENCY_OPERATIONS", "MEDIUM")
        /\ Emitted("HIGH_FREQUENCY_OPERATIONS", "MEDIUM") =
                IF AuditEntriesInWindow(last.entry.user) > 50 THEN 1 ELSE 0

\* The input of a pre-check holds a restricted token.
ClauseHasRestricted(whereClause) ==
    \E i \in 1..Len(securityConfig.restrictedOperations) :
        IncludesChars(ToUpperCase(whereClause), Chars(securityConfig.restrictedOperations[i]))

ListHasRestricted(privileges) ==
    \E k \in 1..Len(privileges), i \in 1..Len(securityConfig.restrictedOperations) :
        ToUpperCase(privileges[k]) = Chars(securityConfig.restrictedOperations[i])

ListAllAllowed(privileges) ==
    \A k \in 1..Len(privileges) : \E i \in 1..Len(securityConfig.allowedOperations) :
        ToUpperCase(privileges[k]) = Chars(securityConfig.allowedOperations[i])

\* The last call appended one security entry, or left the file alone.
EventAppended ==
    /\ Len(log) = last.before + 1
    /\ log[Len(log)].kind = "event"
    /\ log[Len(log)].user = "unknown"

FileUntouched == Len(log) = last.before

C10_StorageErrorSurfaced ==
    (last.op = "logOperation" /\ ~last.appended) => last.raised

(***************************************************************************)
(* Claims about reading the audit log.                                     *)
(***************************************************************************)
\* The stored lines a report with these options, asked at time t, is about:
\* parsed lines inside the inclusive range [t - 24h, t] that match the user,
\* operation and success filters.
InRange(line, t) == line.timestamp >= t - MinutesPerDay /\ line.timestamp <= t

MatchesOptions(line, options) ==
    /\ (options.user # Undefined => line.user = options.user)
    /\ (options.operation # Undefined => line.operation = options.operation)
    /\ (options.success # "any" =>
            line.kind = "entry" /\ line.success = (options.success = "true"))

EmptyFilter == [user |-> Undefined, operation |-> Undefined, success |-> "any"]

Reported == last.op = "generateAuditReport"

\* C11: a read of the log with an empty filter returns the entries in
\* non-decreasing timestamp order, whatever timestamps the record calls
\* supplied.
C11_ReadInTimestampOrder ==
    (Reported /\ last.options = EmptyFilter) =>
        \A i, j \in 1..Len(last.report.entries) :
            i < j => last.report.entries[i].timestamp <= last.report.entries[j].timestamp

\* The audit entries (lines written by logOperation) the report is about.
MatchingAuditEntries ==
    {i \in 1..Len(log) : /\ log[i].kind = "entry"
                         /\ InRange(log[i], last.at)
                         /\ MatchesOptions(log[i], last.options)}

\* C12: the report's total is the number of recorded audit entries in the
\* range that match the filter, its success count the number of those that
\* succeeded, and failed = total - success.
C12_ReportCountsAuditEntries ==
    Reported =>
        /\ last.report.total = Cardinality(MatchingAuditEntries)
        /\ last.report.success = Cardinality({i \in MatchingAuditEntries : log[i].success})
        /\ last.report.failed = last.report.total - last.report.success

\* The stored lines of either kind the report is about.
MatchingLines ==
    {i \in 1..Len(log) : /\ log[i].kind \in {"entry", "event"}
                         /\ InRange(log[i], last.at)
                         /\ MatchesOptions(log[i], last.options)}

\* C13: when no stored entry matches the filter the report has total 0 and
\* the empty-period text, and no success rate is computed; a rate is computed
\* only from a positive number of entries.
C13_EmptyReport ==
    Reported =>
        /\ (MatchingLines = {} =>
                /\ last.report.total = 0
                /\ last.report.empty
                /\ Len(last.report.rate) = 0)
        /\ (Len(last.report.rate) # 0 => last.report.total > 0)

\* A report over a log that holds entries, none of which matches the filter.
C13_Witness ==
    /\ Reported
    /\ Len(log) >= 49
    /\ last.options.success = "false"
    /\ last.report.empty
    /\ last.report.total = 0

\* The lines of the file, as a reader splits it, that JSON.parse rejects, when
\* the file holds more than one line.
MalformedLines ==
    LET lines == ReadLines(log) IN
    IF Len(lines) <= 1 THEN {}
    ELSE {i \in 1..Len(lines) : lines[i].kind \notin {"entry", "event"}}

WellFormedLines == SelectSeq(log, LAMBDA line : line.kind \in {"entry", "event"})

\* C14: a read skips the malformed lines, counts them, and still processes
\* every valid entry: the report covers every matching parsed line, and what
\* the reader returns tells that lines were skipped (it differs from what the
\* same read returns on the log without its malformed lines).
C14_MalformedSkippedAndCounted ==
    Reported =>
        /\ last.report.total = Cardinality(MatchingLines)
        /\ (MalformedLines # {} =>
                last.report # generateAuditReport(WellFormedLines, last.options, last.at))

(***************************************************************************)
(* Claims about the pruning.                                               *)
(***************************************************************************)
\* C15: a pruning whose write fails, at whatever point, leaves the log as it
\* was before the pruning started.
C15_PruneFailureKeepsLog ==
    [][(last'.op = "cleanOldAuditLogs" /\ calls' # calls /\ last'.writeFailed)
            => log' = log]_vars

\* C16: a pruning excludes the record calls: a pruning step adds no line to
\* the log (no append falls between its read and its rewrite), so every audit
\* entry appended before it, by a call that returned or by one still in
\* flight, whose timestamp is newer than the retention cutoff is in the log
\* when the pruning completes.
C16_PruneExcludesRecord ==
    [][(last'.op = "cleanOldAuditLogs" /\ calls' # calls /\ ~last'.writeFailed) =>
            /\ recs' = recs
            /\ IsSubsequence(SelectSeq(log', LAMBDA line : line.kind # "blank"), log)
            /\ \A i \in 1..Len(log) :
                    (/\ log[i].kind = "entry"
                     /\ log[i].timestamp > now - securityConfig.auditRetentionDays * MinutesPerDay)
                    => Count(log', log[i]) = Count(log, log[i])]_vars

\* A pruning ran while two record calls were in flight after their appends:
\* it dropped the expired entry of one and kept the entry of the other.
C16_Witness ==
    /\ last.op = "cleanOldAuditLogs"
    /\ ~last.writeFailed
    /\ last.before = 6
    /\ last.removed = 1
    /\ Len(log) = 5
    /\ recs["c1"].pc = "awaitFailedAttempts"
    /\ recs["c1"].appended
    /\ recs["c1"].entry \in Range(log)
    /\ recs["c2"].pc # "done"
    /\ recs["c2"].appended
    /\ recs["c2"].entry \notin Range(log)

(***************************************************************************)
(* Claims about registrations and the notification registry.               *)
(***************************************************************************)
\* A publish of a type other than the wildcard string invokes a handler once
\* per registration it has for the type and once per wildcard registration.
InvokedPerRegistration ==
    \A p \in DOMAIN pubs :
        (Settled(p) /\ pubs[p].type # Wildcard) =>
            \A h \in Handlers :
                Count(Callbacks(pubs[p].invoked), h)
                    = Count(Callbacks(Regs(subscribers, pubs[p].type)), h)
                      + Count(Callbacks(Regs(subscribers, Wildcard)), h)

\* The registrations of h for t, by serial number.
RegistrationsOf(subs, t, h) == {r \in Range(Regs(subs, t)) : r.h = h}

\* C17: subscribing a handler twice to a type registers it twice and a
\* publish of the type invokes it twice; an unsubscribe removes exactly one of
\* the handler's registrations for the type and touches nothing else, and an
\* unsubscribe of a handler that is not registered for the type changes no
\* subscription.
C17_DuplicateRegistrations ==
    [][/\ InvokedPerRegistration'
       /\ \A t \in EventTypes, h \in Handlers :
            Subscribe(t, h) =>
                /\ Cardinality(RegistrationsOf(subscribers', t, h))
                        = Cardinality(RegistrationsOf(subscribers, t, h)) + 1
                /\ \A x \in DOMAIN subscribers : x # t => subscribers'[x] = subscribers[x]
       /\ \A t \in EventTypes, h \in Handlers :
            Unsubscribe(t, h) =>
                IF RegistrationsOf(subscribers, t, h) = {}
                THEN subscribers' = subscribers
                ELSE /\ Cardinality(RegistrationsOf(subscribers', t, h))
                            = Cardinality(RegistrationsOf(subscribers, t, h)) - 1
                     /\ Len(subscribers'[t]) = Len(subscribers[t]) - 1
                     /\ IsSubsequence(subscribers'[t], subscribers[t])
                     /\ \A x \in DOMAIN subscribers : x # t => subscribers'[x] = subscribers[x]
                     /\ DOMAIN subscribers' = DOMAIN subscribers]_vars

\* A handler registered twice for a type was invoked twice by one publish of
\* that type.
C17_Witness ==
    \E p \in DOMAIN pubs :
        /\ Settled(p)
        /\ pubs[p].type = "SECURITY_ALERT"
        /\ Callbacks(Regs(subscribers, "SECURITY_ALERT")) = <<"h1", "h1">>
        /\ Regs(subscribers, Wildcard) = << >>
        /\ Callbacks(pubs[p].invoked) = <<"h1", "h1">>

\* The registry a fresh bus holds after importing the export of this one.
RoundTrip ==
    importNotifications(<< >>, exportNotifications(notifications), now,
                        [i \in 1..Len(notifications) |-> 1])

\* C18: exporting the notifications to JSON and importing the text into a
\* fresh bus yields as many notifications, with the same messages in the same
\* order, whatever the messages are.
C18_ExportImportRoundTrip ==
    /\ Len(RoundTrip) = Len(notifications)
    /\ \A i \in 1..Len(notifications) : RoundTrip[i].message = notifications[i].message

C20_MarkAndDeleteFrame ==
    [][\A id \in Ids(notifications) \cup {UnknownId} :
        /\ MarkAsRead(id) =>
             IF id \notin Ids(notifications)
             THEN ~reply'.returned /\ notifications' = notifications
             ELSE /\ reply'.returned
                  /\ \E i \in 1..Len(notifications) :
                        /\ notifications[i].id = id
                        /\ notifications' = [notifications EXCEPT ![i].read = TRUE]
        /\ DeleteNotification(id) =>
             IF id \notin Ids(notifications)
             THEN ~reply'.returned /\ notifications' = notifications
             ELSE /\ reply'.returned
                  /\ \E i \in 1..Len(notifications) :
                        /\ notifications[i].id = id
                        /\ notifications' = RemoveAt(notifications, i)]_vars

\* Of two notifications sent, the first was marked as read and the second
\* was not touched.
C20_Witness ==
    /\ reply.op = "markAsRead"
    /\ reply.returned
    /\ sent = 2
    /\ imports = 0
    /\ Len(notifications) = 2
    /\ notifications[1].read
    /\ ~notifications[2].read
    /\ notifications[1].id # notifications[2].id

(***************************************************************************)
(* Claims about the batch scan and the two read paths.                     *)
(***************************************************************************)
\* The failed login-class audit entries of a user inside the 24 hours the
\* last scan looked at.
FailedLoginsInDay(user) ==
    Cardinality({i \in 1..Len(log) :
                    /\ log[i].kind = "entry"
                    /\ log[i].user = user
                    /\ log[i].operation \in LoginClass
                    /\ ~log[i].success
                    /\ log[i].timestamp > last.at - MinutesPerDay})

Scanned == last.op = "detectSuspiciousActivity"

Found(type, subject, severity) ==
    \E i \in 1..Len(last.findings) : last.findings[i] = Finding(type, subject, severity)

\* C21: the scan flags, with MULTIPLE_FAILED_LOGINS at HIGH severity, every
\* user whose failed login-class entries inside the scanned window number at
\* least maxFailedAttempts, the inclusive threshold of the inline rule.
C21_ScanInclusiveThreshold ==
    Scanned =>
        \A u \in Users :
            FailedLoginsInDay(u) >= securityConfig.maxFailedAttempts
                => Found("MULTIPLE_FAILED_LOGINS", u, "HIGH")

\* The windows the two read paths are asked for.
ReadWindows == {FailedAttemptMinutes, RecentOperationMinutes, MinutesPerDay}

\* C22: on the same log, for the same user and window, getRecentFailedAttempts
\* never counts more entries than getRecentOperations lists.
C22_ReadPathsConsistent ==
    \A u \in Users \cup {Undefined}, m \in ReadWindows :
        getRecentFailedAttempts(log, u, m, now) <= Len(getRecentOperations(log, u, m, now))

\* bob has a failed login inside the five-minute window and failed logins
\* before it, and the listing path returns more lines than the counting path
\* counts (another operation of his, and its security entry).
C22_Witness ==
    /\ getRecentFailedAttempts(log, "bob", FailedAttemptMinutes, now) > 0
    /\ getRecentFailedAttempts(log, "bob", FailedAttemptMinutes, now)
            < Len(getRecentOperations(log, "bob", FailedAttemptMinutes, now))
    /\ \E i \in 1..Len(log) :
            /\ log[i].kind = "entry" /\ log[i].user = "bob"
            /\ log[i].operation \in LoginClass /\ ~log[i].success
            /\ log[i].timestamp <= now - FailedAttemptMinutes
    /\ \E i \in 1..Len(log) : log[i].kind = "event" /\ log[i].user = "bob"

(***************************************************************************)
(* Claims about construction.                                              *)
(***************************************************************************)
Constructed == last.op = "constructor"

\* The members the configuration source supplies.
Supplied ==
    IF last.source.kind = "parsed" THEN DOMAIN last.source.value ELSE {}

\* C23: construction completes without raising whatever the configuration
\* source is, and every member of the security configuration that the source
\* does not supply holds its default, the supplied ones their value.
C23_ConfigFallsBackToDefaults ==
    Constructed =>
        /\ ~last.raised
        /\ DOMAIN securityConfig = ConfigFields
        /\ \A f \in ConfigFields :
                securityConfig[f] = IF f \in Supplied THEN last.source.value[f]
                                    ELSE DefaultSecurityConfig[f]

(***************************************************************************)
(* Claims about the order of the append and the rule evaluation.           *)
(***************************************************************************)
\* C24: a logOperation whose append succeeds leaves the audit entry in the
\* log followed by the security entries its evaluation emitted, in order; one
\* whose append fails leaves the log as it was, evaluates no rule and writes
\* no security entry.
C24_EvaluationFollowsAppend ==
    last.op = "logOperation" =>
        IF last.canWrite
        THEN /\ last.appended
             /\ Len(log) = last.before + 1 + Len(last.emitted)
             /\ log[last.before + 1] = last.entry
             /\ \A k \in 1..Len(last.emitted) :
                    log[last.before + 1 + k] =
                        SecurityEntry(last.at, last.emitted[k].type, last.entry.user,
                                      last.emitted[k].severity)
        ELSE /\ ~last.appended
             /\ last.emitted = << >>
             /\ Len(log) = last.before

\* A failed login at an unusual hour was appended to a log that held entries
\* already, and two security entries follow it.
C24_Witness ==
    /\ last.op = "logOperation"
    /\ last.appended
    /\ last.before > 0
    /\ Len(last.emitted) = 2
    /\ log[Len(log)].kind = "event"
    /\ log[Len(log) - 1].kind = "event"
    /\ log[Len(log) - 2] = last.entry

(***************************************************************************)
(* Claims about dispatch: slow handlers, unsubscribing handlers, the       *)
(* wildcard type, and the registry during a publish.                       *)
(***************************************************************************)
\* A slow handler is registered for the type of p's publish or for every type.
SlowMatches(p) ==
    \E r \in Range(Regs(subscribers, pubs[p].type)) \cup Range(Regs(subscribers, Wildcard)) :
        r.h \in SlowHandlers

\* p's publish has returned the notification after invoking every handler of
\* its type and every wildcard handler.
Completed(p) ==
    /\ pubs[p].pc = "returned"
    /\ pubs[p].result = "notification"
    /\ pubs[p].invoked = Regs(subscribers, pubs[p].type) \o Regs(subscribers, Wildcard)

\* C25: a sendNotification whose matching handlers all settle eventually
\* completes after invoking all of them, whatever the publish of another
\* publisher is waiting for: when no handler is slow every publish completes,
\* and a slow handler registered only for another type does not hold it up.
C25_SlowHandlerBlocksNoOther ==
    \A p \in Publishers :
        (pubs[p].pc = "awaiting" /\ ~SlowMatches(p)) ~> Completed(p)

\* p1 is waiting for the slow handler of the database alerts, and the publish
\* of a security alert that p2 began afterwards has completed.
C25_Witness ==
    /\ pubs["p1"].pc = "awaiting"
    /\ pubs["p1"].type = "DATABASE_ALERT"
    /\ Awaited(pubs["p1"]) \in SlowHandlers
    /\ pubs["p2"].type = "SECURITY_ALERT"
    /\ Completed("p2")
    /\ Len(pubs["p2"].invoked) = 3
    /\ notifications[1].type = "DATABASE_ALERT"

\* C26: when handlers unsubscribe themselves or earlier handlers while a
\* notification is dispatched, the publish still invokes, exactly once, every
\* registration of its type and every wildcard registration that was there
\* when it began and was not unsubscribed.
C26_UnsubscribeLosesNoDelivery ==
    \A p \in DOMAIN pubs :
        pubs[p].pc = "returned" =>
            \A r \in Range(Regs(subscribers, pubs[p].type))
                     \cup Range(Regs(subscribers, Wildcard)) :
                Count(pubs[p].invoked, r) = 1

\* C27: a publish invokes each registration of its type and each wildcard
\* registration exactly once, also when the type of the notification is the
\* wildcard string itself.
C27_OncePerRegistration ==
    \A p \in DOMAIN pubs :
        Settled(p) =>
            \A r \in Range(Regs(subscribers, pubs[p].type))
                     \cup Range(Regs(subscribers, Wildcard)) :
                Count(pubs[p].invoked, r) = 1

\* The audit entries of a user, and of a client address, inside the 24 hours
\* the last scan looked at.
AuditEntriesInDay(user) ==
    Cardinality({i \in 1..Len(log) :
                    /\ log[i].kind = "entry"
                    /\ log[i].user = user
                    /\ log[i].timestamp > last.at - MinutesPerDay})

AuditEntriesOfIpInDay(ip) ==
    Cardinality({i \in 1..Len(log) :
                    /\ log[i].kind = "entry"
                    /\ EntryIp(log[i]) = ip
                    /\ log[i].timestamp > last.at - MinutesPerDay})

\* C28: the scan reports every user and client address whose audit entries
\* of the last 24 hours exceed its thresholds, whether or not the window
\* also holds security entries.
C28_ScanIgnoresSecurityEntries ==
    Scanned =>
        /\ \A u \in Users :
            /\ FailedLoginsInDay(u) > ScanFailedLoginLimit
                    => Found("MULTIPLE_FAILED_LOGINS", u, "HIGH")
            /\ AuditEntriesInDay(u) > ScanUserLimit
                    => Found("HIGH_FREQUENCY_USER", u, "MEDIUM")
        /\ AuditEntriesOfIpInDay("127.0.0.1") > ScanIpLimit
                => Found("HIGH_FREQUENCY_IP", "127.0.0.1", "MEDIUM")

(***************************************************************************)
(* Claims about the frequency count.                                       *)
(***************************************************************************)
\* C29: the count the high-frequency rule uses for a user, the length of what
\* getRecentOperations returns, is the number of the user's audit entries
\* inside the ten-minute window; the security entries written for the user
\* are not part of it.
C29_FrequencyCountsAuditEntries ==
    \A u \in Users :
        Len(getRecentOperations(log, u, RecentOperationMinutes, now))
            = Cardinality({i \in 1..Len(log) :
                            /\ log[i].kind = "entry"
                            /\ log[i].user = u
                            /\ log[i].timestamp > now - RecentOperationMinutes})

\* The registry holds a notification with this id.
InRegistry(notifs, id) == \E i \in 1..Len(notifs) : notifs[i].id = id

\* C30: a step that begins a publish appends exactly one notification, unread,
\* to the registry and modifies no other; the notification is in the registry
\* whenever a handler has been invoked for it, and it is still there, and is
\* what the publisher gets, when the publish returns, also when its log line
\* could not be written and when handlers threw; dispatching changes no
\* notification.
C30_SendAddsOneNotification ==
    [][/\ IF sent' # sent
          THEN /\ Len(notifications') = Len(notifications) + 1
               /\ SubSeq(notifications', 1, Len(notifications)) = notifications
               /\ ~notifications'[Len(notifications')].read
               /\ \E p \in DOMAIN pubs :
                    pubs'[p].id = notifications'[Len(notifications')].id
          ELSE notifications' = notifications
       /\ \A p \in DOMAIN pubs :
            /\ pubs'[p].invoked # << >> => InRegistry(notifications', pubs'[p].id)
            /\ pubs'[p].pc = "returned" =>
                    /\ pubs'[p].result = "notification"
                    /\ InRegistry(notifications', pubs'[p].id)]_vars

\* The publish returned its notification after a failed write of the log line
\* and a handler that threw; the two notifications the registry held before
\* are as they were.
C30_Witness ==
    /\ pubs["p1"].pc = "returned"
    /\ pubs["p1"].result = "notification"
    /\ ~pubs["p1"].logged
    /\ pubs["p1"].threw # {}
    /\ sent = 1
    /\ Len(notifications) = 3
    /\ notifications[1] = EarlierNotification
    /\ notifications[2].read
    /\ notifications[3].id = pubs["p1"].id
    /\ ~notifications[3].read

====
